---- MODULE Spec2Model ----
(***************************************************************************)
(* The event queue of mable/event_management.py: EventQueue is a           *)
(* queue.PriorityQueue of EventItem(time, event), i.e. a binary heap kept  *)
(* in the list self.queue by heapq, compared on EventItem.time alone.      *)
(* The events' hooks (added_to_queue) and actions (event_action) act on    *)
(* the vessels, the market and the queue itself.                           *)
(***************************************************************************)
EXTENDS Integers, Sequences, FiniteSets, TLC

\* ------------------------------------------------------------------ bounds
\* Finite event times are 0..MaxTime.
MaxTime == 1
\* Number of Event instances constructed and passed to put in one run.
MaxPuts == 3

\* ------------------------------------------------------------- value sets
\* math.inf: larger than every finite time.
Inf == MaxTime + 1
Times == 0..MaxTime
Vessels == {"v1", "v2"}
CargoTypes == {"X", "Y"}
Locations == {"A", "B"}
NoneV == "None"
\* DurationEvent.__init__: an unstarted event has a start time of -1.
Unstarted == -1

VARIABLES
    queue,          \* EventQueue.queue: the heap list of EventItems
    current_time,   \* engine.world.current_time
    location,       \* vessel.location of every vessel
    nextId,         \* identity of the next Event object constructed
    result,         \* outcome of the last call: operation, return value, exception
    got,            \* the events returned by the gets since the last put, remove or
                    \* purge, in the order returned
    pc,             \* where the calling thread is: "run" between calls, "blocked"
                    \* inside PriorityQueue.get, "hook" and "push" inside put
    inflight,       \* the event of the put that is under way
    hooks,          \* the identities of the events whose added_to_queue was called,
                    \* in the order of the calls
    cargo,          \* the load of every vessel, by cargo type
    occurrences,    \* the calls of vessel.event_occurrence: <<vessel, event identity>>
    market,         \* the calls of the market: inform_future_trades, distribute_trades
    errors,         \* number of calls of logger.error
    done,           \* the events whose event_action has run, as it left them
    operands        \* the two events of a comparison a == b

vars == <<queue, current_time, location, nextId, result, got, pc, inflight, hooks,
          cargo, occurrences, market, errors, done, operands>>

\* What the calls of the queue other than put leave alone.
worldVars == <<pc, inflight, cargo, occurrences, market, errors, done, operands>>

\* ------------------------------------------------------------ the events
\* CargoEvent(time): an Event that is no VesselEvent; info is None until executed.
CargoEvent(t) ==
    [kind |-> "CargoEvent", time |-> t, vessel |-> NoneV, loc |-> NoneV,
     origin |-> NoneV, destination |-> NoneV, time_started |-> Unstarted, id |-> 0,
     info |-> <<NoneV>>]

\* CargoAnnouncementEvent(time, cargo_available_time)
CargoAnnouncementEvent(t, available) ==
    [kind |-> "CargoAnnouncementEvent", time |-> t, vessel |-> NoneV, loc |-> NoneV,
     origin |-> NoneV, destination |-> NoneV, time_started |-> Unstarted, id |-> 0,
     info |-> <<NoneV>>, cargo_available_time |-> available]

\* FirstCargoAnnouncementEvent(time, cargo_available_time_second_cargo)
FirstCargoAnnouncementEvent(t, available) ==
    [kind |-> "FirstCargoAnnouncementEvent", time |-> t, vessel |-> NoneV,
     loc |-> NoneV, origin |-> NoneV, destination |-> NoneV,
     time_started |-> Unstarted, id |-> 0,
     info |-> <<NoneV>>, cargo_available_time |-> available]

\* IdleEvent(time, vessel, location)
IdleEvent(t, v, l) ==
    [kind |-> "IdleEvent", time |-> t, vessel |-> v, loc |-> l,
     origin |-> NoneV, destination |-> NoneV, time_started |-> Unstarted, id |-> 0]

\* TravelEvent(time, vessel, origin, destination)
TravelEvent(t, v, o, d) ==
    [kind |-> "TravelEvent", time |-> t, vessel |-> v, loc |-> NoneV,
     origin |-> o, destination |-> d, time_started |-> Unstarted, id |-> 0,
     is_laden |-> FALSE]

\* An optional number, as in trade.time_window: None, or the number n.
None == <<>>
Some(n) == <<n>>

\* A trade: the attributes the events read.
Trade(o, d, ct, a, tw) ==
    [origin_port |-> o, destination_port |-> d, cargo_type |-> ct, amount |-> a,
     time_window |-> tw]

\* ArrivalEvent(time, vessel, trade, is_pickup)
ArrivalEvent(t, v, trade, is_pickup) ==
    [kind |-> "ArrivalEvent", time |-> t, vessel |-> v, loc |-> NoneV,
     origin |-> NoneV, destination |-> NoneV, time_started |-> Unstarted, id |-> 0,
     trade |-> trade, is_pickup |-> is_pickup]

\* CargoTransferEvent(time, vessel, trade, is_pickup)
CargoTransferEvent(t, v, trade, is_pickup) ==
    [kind |-> "CargoTransferEvent", time |-> t, vessel |-> v, loc |-> NoneV,
     origin |-> NoneV, destination |-> NoneV, time_started |-> Unstarted, id |-> 0,
     trade |-> trade, is_pickup |-> is_pickup]

\* isinstance(event, VesselCargoEvent)
IsVesselCargoEvent(e) == e.kind \in {"ArrivalEvent", "CargoTransferEvent"}

\* isinstance(event, VesselEvent)
IsVesselEvent(e) == e.kind \in {"IdleEvent", "TravelEvent"} \/ IsVesselCargoEvent(e)

\* Event.info: the string the constructors of the vessel events build from
\* their fields; the attribute itself for the other events.
Info(e) ==
    CASE e.kind = "IdleEvent" -> <<"idling", e.loc, e.vessel>>
      [] e.kind = "TravelEvent" -> <<"travel", e.vessel, e.origin, e.destination>>
      [] IsVesselCargoEvent(e) ->
            <<IF e.is_pickup THEN "pick up" ELSE "drop off", e.vessel, e.trade.cargo_type,
              e.trade.amount, e.trade.origin_port, e.trade.destination_port>>
      [] OTHER -> e.info

\* Event.__eq__ without the comparison of the times.
Event_eq_InfoOnly(a, b) == Info(a) = Info(b)

\* Event.__eq__: same time and info.
Event_eq(a, b) == a.time = b.time /\ Info(a) = Info(b)

\* VesselEvent.__eq__: both VesselEvents, equal as Events, same vessel.
VesselEvent_eq(a, b) == IsVesselEvent(b) /\ Event_eq(a, b) /\ a.vessel = b.vessel

\* IdleEvent.__eq__: both IdleEvents, equal as VesselEvents, same location.
IdleEvent_eq(a, b) == b.kind = "IdleEvent" /\ VesselEvent_eq(a, b) /\ a.loc = b.loc

\* VesselCargoEvent.__eq__, and on top of it ArrivalEvent.__eq__ and
\* CargoTransferEvent.__eq__: the other event is of the same class as a, and the
\* time, the pickup flag and the trade are the same.
VesselCargoEvent_eq(a, b) ==
    /\ IsVesselCargoEvent(b)
    /\ a.time = b.time /\ a.is_pickup = b.is_pickup /\ a.trade = b.trade
    /\ b.kind = a.kind

\* a == b for two events: the __eq__ of a's class.
EventEq(a, b) ==
    CASE a.kind = "IdleEvent" -> IdleEvent_eq(a, b)
      [] a.kind = "TravelEvent" -> VesselEvent_eq(a, b)
      [] IsVesselCargoEvent(a) -> VesselCargoEvent_eq(a, b)
      [] OTHER -> Event_eq(a, b)

\* The events a caller can construct, with times in ts and locations in ls.
EventsAt(ts, ls) ==
    {CargoEvent(t) : t \in ts}
    \cup {IdleEvent(t, v, l) : t \in ts, v \in Vessels, l \in ls}
    \cup {TravelEvent(t, v, o, d) : t \in ts, v \in Vessels,
                                    o \in {"A"}, d \in {"B"}}

\* A vessel.location that is a port of the network.
AtPort(l) ==
    [kind |-> "Port", name |-> l, origin |-> NoneV, destination |-> NoneV,
     start_time |-> Unstarted]

\* OnJourney(origin, destination, start_time)
OnJourney(o, d, s) ==
    [kind |-> "OnJourney", name |-> NoneV, origin |-> o, destination |-> d,
     start_time |-> s]

\* No event: what a call that returns no event leaves in result.event.
NoEvent ==
    [kind |-> NoneV, time |-> Unstarted, vessel |-> NoneV, loc |-> NoneV,
     origin |-> NoneV, destination |-> NoneV, time_started |-> Unstarted, id |-> 0]

\* VesselEvent.location of the event: IdleEvent.location, TravelEvent.location
\* (an OnJourney that starts at time_started), VesselCargoEvent.location (the
\* origin port of the trade for a pickup, the destination port otherwise).
EventLocation(e) ==
    CASE e.kind = "IdleEvent" -> AtPort(e.loc)
      [] e.kind = "TravelEvent" -> OnJourney(e.origin, e.destination, e.time_started)
      [] OTHER -> AtPort(IF e.is_pickup THEN e.trade.origin_port
                         ELSE e.trade.destination_port)

\* The outcome of a call: the operation, the exception it raised (None if it
\* returned), the boolean it returned, the event it returned.
Outcome(op, err, flag, event) == [op |-> op, err |-> err, flag |-> flag, event |-> event]

\* ------------------------------------------------------------- EventItem
\* @dataclass(order=True) with event: field(compare=False): only time compares.
EventItem(e) == [time |-> e.time, event |-> e]
\* The order of EventItem with <= in place of <.
ItemLt_OrEqual(a, b) == a.time <= b.time

\* The order of EventItem reversed: the later time first.
ItemLt_Reversed(a, b) == a.time > b.time

\* EventItem.__lt__
ItemLt(a, b) == a.time < b.time
\* EventItem.__eq__
ItemEq(a, b) == a.time = b.time

\* ----------------------------------------------------------------- heapq
\* Positions are 0-based as in heapq; h[p + 1] is heap[p].
RECURSIVE SiftDown(_, _, _, _)
\* heapq._siftdown(heap, startpos, pos) with newitem = heap[pos] held aside.
SiftDown(h, startpos, pos, newitem) ==
    IF pos > startpos
    THEN LET parentpos == (pos - 1) \div 2
             parent == h[parentpos + 1]
         IN  IF ItemLt(newitem, parent)
             THEN SiftDown([h EXCEPT ![pos + 1] = parent], startpos, parentpos, newitem)
             ELSE [h EXCEPT ![pos + 1] = newitem]
    ELSE [h EXCEPT ![pos + 1] = newitem]

RECURSIVE SiftUpLoop(_, _, _)
\* The while loop of heapq._siftup: bubble the smaller child up until a leaf;
\* returns the heap and the leaf position.
SiftUpLoop(h, pos, endpos) ==
    LET childpos == 2 * pos + 1
        rightpos == childpos + 1
    IN  IF childpos < endpos
        THEN LET c == IF rightpos < endpos /\ ~ItemLt(h[childpos + 1], h[rightpos + 1])
                      THEN rightpos ELSE childpos
             IN  SiftUpLoop([h EXCEPT ![pos + 1] = h[c + 1]], c, endpos)
        ELSE <<h, pos>>

\* heapq._siftup(heap, pos)
SiftUp(h, pos) ==
    LET newitem == h[pos + 1]
        r == SiftUpLoop(h, pos, Len(h))
    IN  SiftDown(r[1], pos, r[2], newitem)

\* heappush that appends without sifting the new item towards the root.
HeapPush_NoSift(h, item) == Append(h, item)

\* heapq.heappush(heap, item)
HeapPush(h, item) == SiftDown(Append(h, item), 0, Len(h), item)

\* heapq.heappop(heap) on a non-empty heap: <<returned item, heap afterwards>>.
HeapPop(h) ==
    LET lastelt == h[Len(h)]
        rest == SubSeq(h, 1, Len(h) - 1)
    IN  IF rest # <<>>
        THEN <<rest[1], SiftUp([rest EXCEPT ![1] = lastelt], 0)>>
        ELSE <<lastelt, rest>>

\* ---------------------------------------------------------------- hooks
\* DurationEvent.added_to_queue that takes the current time whatever the
\* event's time is.
StartTime_Now(e, now) == now

\* DurationEvent.added_to_queue: the value time_started gets.
StartTime(e, now) == IF e.time < now THEN e.time ELSE now

\* event.added_to_queue(engine): the event afterwards.
AddedToQueue(e, now) ==
    IF IsVesselEvent(e) THEN [e EXCEPT !.time_started = StartTime(e, now)] ELSE e

\* DurationEvent.has_started with > in place of >=.
HasStarted_Positive(e) == e.time_started > 0

\* DurationEvent.has_started
HasStarted(e) == e.time_started >= 0

\* DurationEvent.performed_time
PerformedTime(e) == IF ~HasStarted(e) THEN 0 ELSE e.time - e.time_started

\* TravelEvent.added_to_queue that leaves the vessel's location alone.
LocationAfterAdded_Unchanged(e, now, loc) == loc

\* TravelEvent.added_to_queue: the vessel is on journey from then on.
LocationAfterAdded(e, now, loc) ==
    IF e.kind = "TravelEvent"
    THEN [loc EXCEPT ![e.vessel] = OnJourney(e.origin, e.destination, StartTime(e, now))]
    ELSE loc

\* ------------------------------------------------------------------ Init
\* The empty queue of EventQueue.__init__, in a world whose clock is at 0 and
\* whose vessels lie in port "A".
Init ==
    /\ queue = <<>>
    /\ current_time = 0
    /\ location = [v \in Vessels |-> AtPort("A")]
    /\ nextId = 1
    /\ result = Outcome("init", NoneV, FALSE, NoEvent)
    /\ got = <<>>
    /\ pc = "run"
    /\ inflight = NoEvent
    /\ hooks = <<>>
    /\ cargo = [v \in Vessels |-> [ct \in CargoTypes |-> 0]]
    /\ occurrences = <<>>
    /\ market = <<>>
    /\ errors = 0
    /\ done = <<>>
    /\ operands = <<NoEvent, NoEvent>>

\* --------------------------------------------------------------- actions
\* The calling thread is between two calls (not waiting inside get, not inside
\* put): only then does it make the next call.
Running == pc = "run"

\* The events passed to put: any time, math.inf included; idling at "A",
\* travelling from "A" to "B".
PutEvents == EventsAt(Times \cup {Inf}, {"A"})

\* EventQueue.put(event) without the check of the time against math.inf.
PutEvent_NoInfCheck(c) ==
    /\ Running
    /\ nextId <= MaxPuts
    /\ LET e == [c EXCEPT !.id = nextId]
       IN  /\ queue' = HeapPush(queue, EventItem(AddedToQueue(e, current_time)))
           /\ location' = LocationAfterAdded(e, current_time, location)
           /\ result' = Outcome("put", NoneV, FALSE, NoEvent)
           /\ nextId' = nextId + 1
           /\ hooks' = Append(hooks, nextId)
    /\ got' = <<>>
    /\ UNCHANGED <<current_time, worldVars>>

\* EventQueue.put(event) for a newly constructed event c; nextId counts the
\* events that were added.
PutEvent(c) ==
    /\ Running
    /\ nextId <= MaxPuts
    /\ LET e == [c EXCEPT !.id = nextId]
       IN  IF e.time = Inf
           THEN /\ result' = Outcome("put", "ValueError", FALSE, NoEvent)
                /\ UNCHANGED <<queue, location, nextId, hooks>>
           ELSE /\ queue' = HeapPush(queue, EventItem(AddedToQueue(e, current_time)))
                /\ location' = LocationAfterAdded(e, current_time, location)
                /\ result' = Outcome("put", NoneV, FALSE, NoEvent)
                /\ nextId' = nextId + 1
                /\ hooks' = Append(hooks, nextId)
    /\ got' = <<>>
    /\ UNCHANGED <<current_time, worldVars>>

Put == \E c \in PutEvents : PutEvent(c)

\* The timeout of a get: None, or a number of seconds (which one is immaterial).
Timeouts == {NoneV, "seconds"}

\* PriorityQueue.get(block, timeout) on an empty queue: queue.Empty at once if
\* not block, queue.Empty once the timeout has passed, and with block and no
\* timeout a wait on not_empty that no other thread ends.
GetEmpty(block, timeout) ==
    IF block /\ timeout = NoneV
    THEN /\ pc' = "blocked"
         /\ result' = Outcome("get", NoneV, FALSE, NoEvent)
         /\ UNCHANGED <<queue, got>>
    ELSE /\ result' = Outcome("get", "Empty", FALSE, NoEvent)
         /\ UNCHANGED <<pc, queue, got>>

\* EventQueue.get(block, timeout)
GetCall(block, timeout) ==
    /\ Running
    /\ IF queue = <<>>
       THEN GetEmpty(block, timeout)
       ELSE LET r == HeapPop(queue)
            IN  /\ queue' = r[2]
                /\ result' = Outcome("get", NoneV, FALSE, r[1].event)
                /\ got' = Append(got, r[1].event)
                /\ UNCHANGED pc
    /\ UNCHANGED <<current_time, location, nextId, inflight, hooks, cargo,
                   occurrences, market, errors, done, operands>>

\* A call of get, with any block and timeout; get() is get(True, None).
Get == \E block \in BOOLEAN, timeout \in Timeouts : GetCall(block, timeout)

\* list.remove(x) on self.queue: delete the first item equal to x, i.e. of the
\* same time; <<found, list afterwards>>. The list is not re-heapified.
RECURSIVE ListRemove(_, _)
ListRemove(h, x) ==
    IF h = <<>> THEN <<FALSE, h>>
    ELSE IF ItemEq(Head(h), x) THEN <<TRUE, Tail(h)>>
    ELSE LET r == ListRemove(Tail(h), x) IN <<r[1], <<Head(h)>> \o r[2]>>

\* The for loop of EventQueue.remove over the list event_s: the queue afterwards
\* (an event that is not found is logged and skipped).
RECURSIVE RemoveEvents(_, _)
RemoveEvents(h, event_s) ==
    IF event_s = <<>> THEN h
    ELSE RemoveEvents(ListRemove(h, EventItem(Head(event_s)))[2], Tail(event_s))

\* The scan of EventQueue.purge: the vessel's events, in the order of self.queue.
RECURSIVE VesselsEvents(_, _)
VesselsEvents(h, vessel) ==
    IF h = <<>> THEN <<>>
    ELSE (IF IsVesselEvent(Head(h).event) /\ Head(h).event.vessel = vessel
          THEN <<Head(h).event>> ELSE <<>>) \o VesselsEvents(Tail(h), vessel)

\* The scan of __contains__ and __getitem__: the first position of self.queue
\* whose item equals EventItem(event.time, event), 0 if there is none.
RECURSIVE FindItem(_, _, _)
FindItem(h, event, i) ==
    IF i > Len(h) THEN 0
    ELSE IF ItemEq(EventItem(event), h[i]) THEN i
    ELSE FindItem(h, event, i + 1)

\* The events a caller passes to remove, in and []: constructed with a finite time.
Probes == EventsAt(Times, Locations)

\* What remove is called with: one constructed event (which remove wraps into a
\* list), or a list of two events that are pending at different positions.
RemoveArgs(h) ==
    {<<e>> : e \in Probes}
    \cup {<<h[p[1]].event, h[p[2]].event>> :
            p \in {q \in (DOMAIN h) \X (DOMAIN h) : q[1] # q[2]}}

\* EventQueue.remove(event_s)
Remove(event_s) ==
    /\ Running
    /\ queue' = RemoveEvents(queue, event_s)
    /\ result' = Outcome("remove", NoneV, FALSE, NoEvent)
    /\ got' = <<>>
    /\ UNCHANGED <<current_time, location, nextId, hooks, worldVars>>

RemoveAny == \E event_s \in RemoveArgs(queue) : Remove(event_s)

\* EventQueue.purge(vessel)
Purge(vessel) ==
    /\ Running
    /\ queue' = RemoveEvents(queue, VesselsEvents(queue, vessel))
    /\ result' = Outcome("purge", NoneV, FALSE, NoEvent)
    /\ got' = <<>>
    /\ UNCHANGED <<current_time, location, nextId, hooks, worldVars>>

PurgeAny == \E vessel \in Vessels : Purge(vessel)

\* event in queue: EventQueue.__contains__(event)
Contains(event) ==
    /\ Running
    /\ result' = Outcome("contains", NoneV, FindItem(queue, event, 1) # 0, NoEvent)
    /\ UNCHANGED <<queue, current_time, location, nextId, got, hooks, worldVars>>

ContainsAny == \E event \in Probes : Contains(event)

\* queue[event]: EventQueue.__getitem__(event)
GetItem(event) ==
    /\ Running
    /\ LET i == FindItem(queue, event, 1)
       IN  result' = IF i = 0
                     THEN Outcome("getitem", "ValueError", FALSE, NoEvent)
                     ELSE Outcome("getitem", NoneV, FALSE, queue[i].event)
    /\ UNCHANGED <<queue, current_time, location, nextId, got, hooks, worldVars>>

GetItemAny == \E event \in Probes : GetItem(event)

\* The engine advances engine.world.current_time between calls.
AdvanceTime ==
    /\ Running
    /\ current_time < MaxTime
    /\ current_time' = current_time + 1
    /\ UNCHANGED <<queue, location, nextId, result, got, hooks, worldVars>>

Next == Put \/ Get \/ RemoveAny \/ PurgeAny \/ ContainsAny \/ GetItemAny \/ AdvanceTime

Spec == Init /\ [][Next]_vars

\* get() as the engine's loop calls it: only while events are pending.
GetNext == queue # <<>> /\ GetCall(TRUE, NoneV)

\* Runs of put and get alone (no remove, no purge), with the clock advancing.
NextOrder == Put \/ GetNext \/ AdvanceTime

SpecOrder == Init /\ [][NextOrder]_vars

\* ------------------------------------------------------------ execution
\* vessel.load_cargo(cargo_type, amount): the loads afterwards.
LoadCargo(c, v, ct, a) == [c EXCEPT ![v][ct] = @ + a]

\* vessel.unload_cargo(cargo_type, amount): the loads afterwards.
UnloadCargo(c, v, ct, a) == [c EXCEPT ![v][ct] = @ - a]

\* vessel.has_any_load()
HasAnyLoad(c, v) == \E ct \in CargoTypes : c[v][ct] > 0

\* engine.shipping.get_trades(time): the trades that become available at the time
\* (time + 1 of them at a finite time, none at math.inf).
GetTrades(t) == IF t = Inf THEN {} ELSE {<<"trade", t, k>> : k \in 0..t}

\* engine.class_factory.generate_event_cargo(time): the auction of the cargoes
\* of the time, a CargoEvent.
GenerateEventCargo(t) == CargoEvent(t)

\* A call of the market.
MarketCall(name, t, trades) == [call |-> name, time |-> t, trades |-> trades]

\* The check of ArrivalEvent.event_action against all four bounds of the window,
\* whether the event is a pickup or a drop-off.
WindowViolated_AnyBound(e) ==
    LET tw == e.trade.time_window
    IN  \/ tw[1] # None /\ e.time < tw[1][1]
        \/ tw[2] # None /\ e.time > tw[2][1]
        \/ tw[3] # None /\ e.time < tw[3][1]
        \/ tw[4] # None /\ e.time > tw[4][1]

\* The if/elif of ArrivalEvent.event_action: logger.error is called (once).
WindowViolated(e) ==
    LET tw == e.trade.time_window
    IN  IF e.is_pickup
        THEN \/ tw[1] # None /\ e.time < tw[1][1]
             \/ tw[2] # None /\ e.time > tw[2][1]
        ELSE \/ tw[3] # None /\ e.time < tw[3][1]
             \/ tw[4] # None /\ e.time > tw[4][1]

\* What an event_action that enqueues nothing leaves alone.
NoPut == UNCHANGED <<queue, nextId, hooks, got>>

\* VesselEvent.event_action, which is all of IdleEvent's event_action: the vessel
\* is informed of the event and is at the location of the event.
VesselEventAction(e) ==
    /\ occurrences' = Append(occurrences, <<e.vessel, e.id>>)
    /\ location' = [location EXCEPT ![e.vessel] = EventLocation(e)]
    /\ done' = Append(done, e)
    /\ result' = Outcome("execute", NoneV, FALSE, e)
    /\ NoPut
    /\ UNCHANGED <<cargo, market, errors>>

\* TravelEvent.event_action that does not read is_laden from the vessel.
TravelEventAction_NotLaden(e) ==
    /\ occurrences' = Append(occurrences, <<e.vessel, e.id>>)
    /\ location' = [location EXCEPT ![e.vessel] = AtPort(e.destination)]
    /\ done' = Append(done, e)
    /\ result' = Outcome("execute", NoneV, FALSE, e)
    /\ NoPut
    /\ UNCHANGED <<cargo, market, errors>>

\* TravelEvent.event_action: VesselEvent.event_action, then is_laden is read
\* from the vessel, then the vessel is at the destination.
TravelEventAction(e) ==
    LET after == [e EXCEPT !.is_laden = HasAnyLoad(cargo, e.vessel)]
    IN  /\ occurrences' = Append(occurrences, <<e.vessel, e.id>>)
        /\ location' = [location EXCEPT ![e.vessel] = AtPort(e.destination)]
        /\ done' = Append(done, after)
        /\ result' = Outcome("execute", NoneV, FALSE, after)
        /\ NoPut
        /\ UNCHANGED <<cargo, market, errors>>

\* ArrivalEvent.event_action that raises on a violated time window, before the
\* vessel is informed.
ArrivalEventAction_Raises(e) ==
    IF WindowViolated(e)
    THEN /\ result' = Outcome("execute", "ValueError", FALSE, e)
         /\ errors' = errors + 1
         /\ done' = Append(done, e)
         /\ NoPut
         /\ UNCHANGED <<occurrences, location, cargo, market>>
    ELSE /\ VesselEventAction(e)

\* ArrivalEvent.event_action: VesselEvent.event_action, then the check of the
\* time against the trade's time window, which logs an error.
ArrivalEventAction(e) ==
    /\ occurrences' = Append(occurrences, <<e.vessel, e.id>>)
    /\ location' = [location EXCEPT ![e.vessel] = EventLocation(e)]
    /\ errors' = IF WindowViolated(e) THEN errors + 1 ELSE errors
    /\ done' = Append(done, e)
    /\ result' = Outcome("execute", NoneV, FALSE, e)
    /\ NoPut
    /\ UNCHANGED <<cargo, market>>

\* CargoTransferEvent.event_action that loads whether or not the event is a pickup.
CargoTransferEventAction_AlwaysLoads(e) ==
    /\ occurrences' = Append(occurrences, <<e.vessel, e.id>>)
    /\ location' = [location EXCEPT ![e.vessel] = EventLocation(e)]
    /\ cargo' = LoadCargo(cargo, e.vessel, e.trade.cargo_type, e.trade.amount)
    /\ done' = Append(done, e)
    /\ result' = Outcome("execute", NoneV, FALSE, e)
    /\ NoPut
    /\ UNCHANGED <<market, errors>>

\* CargoTransferEvent.event_action: VesselEvent.event_action, then the cargo of
\* the trade is loaded (pickup) or unloaded (drop-off).
CargoTransferEventAction(e) ==
    /\ occurrences' = Append(occurrences, <<e.vessel, e.id>>)
    /\ location' = [location EXCEPT ![e.vessel] = EventLocation(e)]
    /\ cargo' = IF e.is_pickup
                THEN LoadCargo(cargo, e.vessel, e.trade.cargo_type, e.trade.amount)
                ELSE UnloadCargo(cargo, e.vessel, e.trade.cargo_type, e.trade.amount)
    /\ done' = Append(done, e)
    /\ result' = Outcome("execute", NoneV, FALSE, e)
    /\ NoPut
    /\ UNCHANGED <<market, errors>>

\* CargoEvent.event_action: the trades of the event's time go to the market for
\* distribution.
CargoEventAction(e) ==
    LET all_trades == GetTrades(e.time)
        after == [e EXCEPT !.info = <<"#Trades", Cardinality(all_trades)>>]
    IN  /\ market' = Append(market, MarketCall("distribute_trades", e.time, all_trades))
        /\ done' = Append(done, after)
        /\ result' = Outcome("execute", NoneV, FALSE, after)
        /\ NoPut
        /\ UNCHANGED <<location, cargo, occurrences, errors>>

\* The state of the queue after event_queue.put(c) for a new event c of a finite
\* time, in a state where the queue is q, vessels are at loc and n events were
\* constructed before: <<queue, location, hooks, nextId>>.
AfterPut(q, loc, hk, n, c) ==
    LET e == [c EXCEPT !.id = n]
    IN  <<HeapPush(q, EventItem(AddedToQueue(e, current_time))),
          LocationAfterAdded(e, current_time, loc), Append(hk, n), n + 1>>

\* CargoAnnouncementEvent.event_action that announces and enqueues nothing.
CargoAnnouncementEventAction_NoPut(e) ==
    LET available == e.cargo_available_time
        all_trades == GetTrades(available)
        after == [e EXCEPT !.info = <<"#Trades", Cardinality(all_trades), available>>]
    IN  /\ market' = Append(market, MarketCall("inform_future_trades", available, all_trades))
        /\ done' = Append(done, after)
        /\ result' = Outcome("execute", NoneV, FALSE, after)
        /\ UNCHANGED <<queue, location, hooks, nextId>>
        /\ got' = <<>>
        /\ UNCHANGED <<cargo, occurrences, errors>>

\* CargoAnnouncementEvent.event_action: the trades of cargo_available_time are
\* announced to the market, then the event that generate_event_cargo makes for
\* that time is put; the put raises ValueError if the time is math.inf.
CargoAnnouncementEventAction(e) ==
    LET available == e.cargo_available_time
        all_trades == GetTrades(available)
        after == [e EXCEPT !.info = <<"#Trades", Cardinality(all_trades), available>>]
        r == AfterPut(queue, location, hooks, nextId, GenerateEventCargo(available))
    IN  /\ nextId <= MaxPuts
        /\ market' = Append(market, MarketCall("inform_future_trades", available, all_trades))
        /\ done' = Append(done, after)
        /\ IF available = Inf
           THEN /\ result' = Outcome("execute", "ValueError", FALSE, after)
                /\ UNCHANGED <<queue, location, hooks, nextId>>
           ELSE /\ result' = Outcome("execute", NoneV, FALSE, after)
                /\ queue' = r[1] /\ location' = r[2] /\ hooks' = r[3] /\ nextId' = r[4]
        /\ got' = <<>>
        /\ UNCHANGED <<cargo, occurrences, errors>>

\* FirstCargoAnnouncementEvent.event_action that does not put the event for
\* time 0.
FirstCargoAnnouncementEventAction_NoSeed(e) == CargoAnnouncementEventAction(e)

\* FirstCargoAnnouncementEvent.event_action: as CargoAnnouncementEvent's, with
\* the event for time 0 put before the event for the announced time.
FirstCargoAnnouncementEventAction(e) ==
    LET available == e.cargo_available_time
        all_trades == GetTrades(available)
        after == [e EXCEPT !.info = <<"#Trades", Cardinality(all_trades), available>>]
        r0 == AfterPut(queue, location, hooks, nextId, GenerateEventCargo(0))
        r == AfterPut(r0[1], r0[2], r0[3], r0[4], GenerateEventCargo(available))
    IN  /\ nextId + 1 <= MaxPuts
        /\ market' = Append(market, MarketCall("inform_future_trades", available, all_trades))
        /\ done' = Append(done, after)
        /\ IF available = Inf
           THEN /\ result' = Outcome("execute", "ValueError", FALSE, after)
                /\ queue' = r0[1] /\ location' = r0[2] /\ hooks' = r0[3] /\ nextId' = r0[4]
           ELSE /\ result' = Outcome("execute", NoneV, FALSE, after)
                /\ queue' = r[1] /\ location' = r[2] /\ hooks' = r[3] /\ nextId' = r[4]
        /\ got' = <<>>
        /\ UNCHANGED <<cargo, occurrences, errors>>

\* event.event_action(engine) for the event e
EventAction(e) ==
    CASE e.kind = "IdleEvent" -> VesselEventAction(e)
      [] e.kind = "TravelEvent" -> TravelEventAction(e)
      [] e.kind = "ArrivalEvent" -> ArrivalEventAction(e)
      [] e.kind = "CargoTransferEvent" -> CargoTransferEventAction(e)
      [] e.kind = "CargoEvent" -> CargoEventAction(e)
      [] e.kind = "CargoAnnouncementEvent" -> CargoAnnouncementEventAction(e)
      [] e.kind = "FirstCargoAnnouncementEvent" -> FirstCargoAnnouncementEventAction(e)

\* The last call was a get that returned an event, which the engine has not
\* executed yet.
Extracted == result.op = "get" /\ result.err = NoneV /\ result.event.kind # NoneV

\* The engine executes the event that get has just returned.
Execute ==
    /\ Running
    /\ Extracted
    /\ EventAction(result.event)
    /\ UNCHANGED <<current_time, pc, inflight, operands>>

\* ----------------------------------------------------------------- voyages
\* Voyages between "A" and "B", either way, of every vessel.
TravelEvents ==
    {TravelEvent(t, v, r[1], r[2]) :
        t \in Times, v \in Vessels, r \in {<<"A", "B">>, <<"B", "A">>}}

\* One event fewer than MaxPuts is put.
PutTravel == nextId < MaxPuts /\ \E c \in TravelEvents : PutEvent(c)

NextTravel == PutTravel \/ GetNext \/ Execute \/ AdvanceTime

SpecTravel == Init /\ [][NextTravel]_vars

\* ----------------------------------------------------------- laden voyages
\* The voyages of v1 from "A" to "B", and the transfers of a trade of cargo "X"
\* onto and off v1.
LadenTrade == Trade("A", "B", "X", 1, <<None, None, None, None>>)

LadenEvents ==
    UNION {{TravelEvent(t, "v1", "A", "B"), CargoTransferEvent(t, "v1", LadenTrade, TRUE),
            CargoTransferEvent(t, "v1", LadenTrade, FALSE)} : t \in Times}

PutLaden == \E c \in LadenEvents : PutEvent(c)

\* Runs in which the clock stands at 0.
NextLaden == PutLaden \/ GetNext \/ Execute

SpecLaden == Init /\ [][NextLaden]_vars

\* ------------------------------------------------------------ port calls
\* A trade of cargo "X" from "A" to "B": pickup not before time 1, drop-off not
\* after time 0. A trade of cargo "Y" the other way, without a time window.
TradeX == Trade("A", "B", "X", 1, <<Some(1), None, None, Some(0)>>)
TradeY == Trade("B", "A", "Y", 2, <<None, None, None, None>>)

\* The arrivals and transfers of v1 for TradeX, and the pickup of TradeY by v2.
PortCallEvents ==
    UNION {{ArrivalEvent(t, "v1", TradeX, TRUE), ArrivalEvent(t, "v1", TradeX, FALSE),
            CargoTransferEvent(t, "v1", TradeX, TRUE),
            CargoTransferEvent(t, "v1", TradeX, FALSE),
            CargoTransferEvent(t, "v2", TradeY, TRUE)} : t \in Times}

\* One event fewer than MaxPuts is put.
PutPortCall == nextId < MaxPuts /\ \E c \in PortCallEvents : PutEvent(c)

NextPortCall == PutPortCall \/ GetNext \/ Execute \/ AdvanceTime

SpecPortCall == Init /\ [][NextPortCall]_vars

\* ----------------------------------------------------------- announcements
\* The announcements the engine schedules: at a finite time, of the cargoes of a
\* time that may be math.inf.
AnnouncementEvents ==
    {CargoAnnouncementEvent(t, a) : t \in Times, a \in Times \cup {Inf}}
    \cup {FirstCargoAnnouncementEvent(t, a) : t \in Times, a \in Times \cup {Inf}}

\* One event fewer than MaxPuts is put; the executions put the others.
PutAnnouncement == nextId < MaxPuts /\ \E c \in AnnouncementEvents : PutEvent(c)

NextAnnounce == PutAnnouncement \/ GetNext \/ Execute \/ AdvanceTime

SpecAnnounce == Init /\ [][NextAnnounce]_vars

\* ------------------------------------------------------------ time windows
\* A bound of a time window: unset, or a time.
Bounds == {None} \cup {Some(t) : t \in Times}

\* The arrivals of v1, pickup or drop-off, at any time, for a trade with any
\* time window.
WindowEvents ==
    {ArrivalEvent(t, "v1", Trade("A", "B", "X", 1, tw), p) :
        t \in Times, p \in BOOLEAN, tw \in Bounds \X Bounds \X Bounds \X Bounds}

\* One arrival was put at time 0 and is pending; nothing else has happened.
InitWindow ==
    /\ \E c \in WindowEvents :
          queue = <<EventItem(AddedToQueue([c EXCEPT !.id = 1], 0))>>
    /\ current_time = 0
    /\ location = [v \in Vessels |-> AtPort("A")]
    /\ nextId = 2
    /\ result = Outcome("put", NoneV, FALSE, NoEvent)
    /\ got = <<>>
    /\ pc = "run"
    /\ inflight = NoEvent
    /\ hooks = <<1>>
    /\ cargo = [v \in Vessels |-> [ct \in CargoTypes |-> 0]]
    /\ occurrences = <<>>
    /\ market = <<>>
    /\ errors = 0
    /\ done = <<>>
    /\ operands = <<NoEvent, NoEvent>>

NextWindow == GetNext \/ Execute

SpecWindow == InitWindow /\ [][NextWindow]_vars

\* -------------------------------------------------------------- equality
\* The IdleEvents that are compared: newly constructed, or as a put at some time
\* from 0 to the event's time has left them, with one of two identities.
IdleOperands ==
    {[IdleEvent(t, v, l) EXCEPT !.time_started = s, !.id = n] :
        t \in Times, v \in Vessels, l \in Locations,
        s \in {Unstarted} \cup Times, n \in {1, 2}}

\* Two IdleEvents exist and nothing else has happened.
InitEq ==
    /\ operands \in IdleOperands \X IdleOperands
    /\ queue = <<>>
    /\ current_time = 0
    /\ location = [v \in Vessels |-> AtPort("A")]
    /\ nextId = 1
    /\ result = Outcome("init", NoneV, FALSE, NoEvent)
    /\ got = <<>>
    /\ pc = "run"
    /\ inflight = NoEvent
    /\ hooks = <<>>
    /\ cargo = [v \in Vessels |-> [ct \in CargoTypes |-> 0]]
    /\ occurrences = <<>>
    /\ market = <<>>
    /\ errors = 0
    /\ done = <<>>

\* a == b for the two IdleEvents
Compare ==
    /\ result' = Outcome("eq", NoneV, EventEq(operands[1], operands[2]), NoEvent)
    /\ UNCHANGED <<queue, current_time, location, nextId, got, hooks, worldVars>>

SpecEq == InitEq /\ [][Compare]_vars

\* ------------------------------------------------------- put, step by step
\* What put is called with in the runs that follow put through its statements:
\* per time a CargoEvent, a TravelEvent of v1, an IdleEvent and a pickup
\* CargoTransferEvent of v2.
HookTrade == Trade("A", "B", "X", 1, <<None, None, None, None>>)

HookEvents ==
    UNION {{CargoEvent(t), TravelEvent(t, "v1", "A", "B"), IdleEvent(t, "v2", "A"),
            CargoTransferEvent(t, "v2", HookTrade, TRUE)} : t \in Times \cup {Inf}}

\* EventQueue.put up to the call of the hook: the check of the time against
\* math.inf, which raises ValueError and ends the call.
PutCheck(c) ==
    /\ pc = "run"
    /\ nextId < MaxPuts
    /\ LET e == [c EXCEPT !.id = nextId]
       IN  IF e.time = Inf
           THEN /\ result' = Outcome("put", "ValueError", FALSE, NoEvent)
                /\ UNCHANGED <<pc, inflight>>
           ELSE /\ pc' = "hook"
                /\ inflight' = e
                /\ result' = Outcome("put", NoneV, FALSE, NoEvent)
    /\ got' = <<>>
    /\ UNCHANGED <<queue, current_time, location, nextId, hooks, cargo, occurrences,
                   market, errors, done, operands>>

PutCheckAny == \E c \in HookEvents : PutCheck(c)

\* The hook step of put without the call of added_to_queue.
PutHook_NoCall ==
    /\ pc = "hook"
    /\ pc' = "push"
    /\ UNCHANGED <<queue, current_time, location, nextId, result, got, inflight, hooks,
                   cargo, occurrences, market, errors, done, operands>>

\* event.added_to_queue(self._engine), the statement of put after the check.
PutHook ==
    /\ pc = "hook"
    /\ inflight' = AddedToQueue(inflight, current_time)
    /\ location' = LocationAfterAdded(inflight, current_time, location)
    /\ hooks' = Append(hooks, inflight.id)
    /\ pc' = "push"
    /\ UNCHANGED <<queue, current_time, nextId, result, got, cargo, occurrences,
                   market, errors, done, operands>>

\* super().put(EventItem(event.time, event)), the last statement of put.
PutPush ==
    /\ pc = "push"
    /\ queue' = HeapPush(queue, EventItem(inflight))
    /\ nextId' = nextId + 1
    /\ inflight' = NoEvent
    /\ pc' = "run"
    /\ UNCHANGED <<current_time, location, result, got, hooks, cargo, occurrences,
                   market, errors, done, operands>>

\* Runs of put, followed statement by statement, and get; one event fewer than
\* MaxPuts is put.
NextPut == PutCheckAny \/ PutHook \/ PutPush \/ GetNext \/ AdvanceTime

SpecPut == Init /\ [][NextPut]_vars

\* ---------------------------------------------------------------- claims
\* Some pending event is structurally equal to e (the events' own __eq__).
Present(h, e) == \E i \in DOMAIN h : EventEq(e, h[i].event)

\* The identities of the pending events.
Ids(h) == {h[i].event.id : i \in DOMAIN h}

\* The pending event is bound to the vessel.
BoundTo(e, vessel) == IsVesselEvent(e) /\ e.vessel = vessel

\* The pending items not bound to the vessel, in the order of the list.
RECURSIVE OthersOf(_, _)
OthersOf(h, vessel) ==
    IF h = <<>> THEN <<>>
    ELSE (IF BoundTo(Head(h).event, vessel) THEN <<>> ELSE <<Head(h)>>)
         \o OthersOf(Tail(h), vessel)

\* C1: in a run of puts and gets (no remove, no purge), the events returned by
\* the gets that follow the puts come in non-decreasing order of time.
C1_GetsNonDecreasing ==
    \A i \in 1..(Len(got) - 1) : got[i].time <= got[i + 1].time

\* Three events were extracted in a row, the first with a smaller time than the
\* last although it was inserted after it.
C1_Witness ==
    /\ Len(got) = 3
    /\ got[1].time < got[3].time
    /\ got[1].id > got[3].id

\* C2: after any interleaving of put, get, remove and purge, get returns an
\* event whose time is the minimum over the pending events.
C2_GetReturnsMinimum ==
    [][Get => \A i \in DOMAIN queue : result'.event.time <= queue[i].time]_vars

\* C3 (as stated): of two events with the same time that are both pending, gets
\* return the one inserted earlier before the one inserted later.
C3_TiesInInsertionOrder ==
    \A i \in DOMAIN got : \A j \in DOMAIN got :
        (i < j /\ got[i].time = got[j].time) => got[i].id < got[j].id

\* Only puts, then exactly one get: every event put so far is pending or got[1].
FirstGetAfterPuts == Len(got) = 1 /\ Len(queue) + 1 = nextId - 1

\* C3 (amended): the first get after a run of puts into the empty queue returns,
\* among the events of minimum time, the one inserted first; every pending event
\* has a later time, or the same time and a later insertion.
C3_FirstGetEarliestOfTies ==
    FirstGetAfterPuts =>
        \A i \in DOMAIN queue :
            \/ got[1].time < queue[i].time
            \/ got[1].time = queue[i].time /\ got[1].id < queue[i].event.id

\* The first get returned the first inserted of three events, and an event of
\* the same time, inserted later, is still pending.
C3_Witness ==
    /\ FirstGetAfterPuts
    /\ Len(queue) = 2
    /\ \E i \in DOMAIN queue : queue[i].time = got[1].time
    /\ \E i \in DOMAIN queue : queue[i].time > got[1].time

\* No pending event has the time math.inf.
NoInfiniteTime == \A i \in DOMAIN queue : queue[i].time # Inf /\ queue[i].event.time # Inf

\* C4: put of an event whose time is math.inf raises ValueError and leaves the
\* queue (and the vessels and the event count) as they were, and no reachable
\* state holds an event with time math.inf.
C4_InfiniteTimeRejected ==
    /\ []NoInfiniteTime
    /\ [][\A c \in {x \in PutEvents : x.time = Inf} :
            PutEvent(c) => /\ result'.err = "ValueError"
                           /\ UNCHANGED <<queue, location, nextId>>]_vars

\* A put was refused while events were pending.
C4_Witness ==
    /\ result.op = "put"
    /\ result.err = "ValueError"
    /\ Len(queue) >= 2

\* C5: remove(event) removes every pending entry structurally equal to the
\* event, and no other entry.
C5_RemoveStructurallyEqual ==
    [][\A e \in Probes :
          Remove(<<e>>) =>
              Ids(queue') = {queue[i].event.id :
                                i \in {j \in DOMAIN queue : ~EventEq(e, queue[j].event)}}]_vars

\* C6: remove of an event to which no pending event is structurally equal does
\* not raise and leaves the queue as it was.
C6_RemoveAbsentIsNoOp ==
    [][\A e \in Probes :
          (Remove(<<e>>) /\ ~Present(queue, e)) =>
              (queue' = queue /\ result'.err = NoneV)]_vars

\* C7: after purge(v) no pending event is bound to v, and exactly the events
\* bound to v were removed.
C7_PurgeRemovesVesselsEvents ==
    [][\A v \in Vessels :
          Purge(v) =>
              /\ \A i \in DOMAIN queue' : ~BoundTo(queue'[i].event, v)
              /\ Len(queue') = Len(OthersOf(queue, v))]_vars

\* C8: purge(v) leaves every pending event that is not bound to v in the queue,
\* in the original relative order.
C8_PurgeKeepsOthers ==
    [][\A v \in Vessels : Purge(v) => OthersOf(queue', v) = OthersOf(queue, v)]_vars

\* C9: event in queue is true exactly if some pending event is structurally
\* equal to the event, and leaves the queue as it was.
C9_ContainsStructural ==
    [][\A e \in Probes :
          Contains(e) => (result'.flag = Present(queue, e) /\ queue' = queue)]_vars

\* C10: queue[event] returns a pending event structurally equal to the event if
\* there is one and raises ValueError if there is none, and leaves the queue as
\* it was.
C10_GetItemStructural ==
    [][\A e \in Probes :
          GetItem(e) =>
              /\ queue' = queue
              /\ IF Present(queue, e)
                 THEN result'.err = NoneV /\ EventEq(e, result'.event)
                 ELSE result'.err = "ValueError"]_vars
\* C11: get on a queue with no pending event raises the empty-queue error to the
\* caller, whatever block and timeout are, and the caller stays able to act (it
\* is not left waiting inside get).
C11_EmptyGetRaises ==
    [][\A block \in BOOLEAN, timeout \in Timeouts :
          (queue = <<>> /\ GetCall(block, timeout)) =>
              /\ result'.err = "Empty"
              /\ pc' = "run"]_vars

\* C12: put of an event whose time is strictly earlier than the current time
\* raises ValueError and does not add the event.
C12_PastTimeRejected ==
    [][\A c \in PutEvents :
          (c.time < current_time /\ PutEvent(c)) =>
              /\ result'.err = "ValueError"
              /\ queue' = queue]_vars

\* The smaller of two numbers.
Min(a, b) == IF a <= b THEN a ELSE b

HookedOnce(id) == Cardinality({i \in DOMAIN hooks : hooks[i] = id}) = 1

\* C20: when put places the item in the queue, the hook has been called exactly
\* once for the event and its effects are there (time_started of a vessel event
\* is set, the vessel of a TravelEvent is on that journey), so that every
\* pending event has them; a put that fails on an infinite time calls no hook
\* and changes neither the queue nor any vessel's location.
C20_HookOnceBeforeHeld ==
    /\ [](\A i \in DOMAIN queue :
            /\ HookedOnce(queue[i].event.id)
            /\ IsVesselEvent(queue[i].event) => queue[i].event.time_started # Unstarted)
    /\ [][PutPush =>
            /\ HookedOnce(inflight.id)
            /\ IsVesselEvent(inflight) => inflight.time_started # Unstarted
            /\ inflight.kind = "TravelEvent" =>
                  location[inflight.vessel] =
                      OnJourney(inflight.origin, inflight.destination,
                                inflight.time_started)]_vars
    /\ [][\A c \in {x \in HookEvents : x.time = Inf} : PutCheck(c) =>
            /\ result'.err = "ValueError"
            /\ UNCHANGED <<queue, hooks, location, inflight, pc, nextId>>]_vars

\* A TravelEvent is pending with its hook's effects in place, and the put after
\* it has failed.
C20_Witness ==
    /\ pc = "run" /\ result.op = "put" /\ result.err = "ValueError"
    /\ Len(hooks) = 1
    /\ \E i \in DOMAIN queue :
          /\ queue[i].event.kind = "TravelEvent"
          /\ queue[i].event.time_started # Unstarted
          /\ location[queue[i].event.vessel].kind = "OnJourney"

\* The TravelEvents that were inserted and not executed yet: the pending ones and
\* the one that get has just returned.
WaitingTravels ==
    {queue[i].event : i \in {j \in DOMAIN queue : queue[j].event.kind = "TravelEvent"}}
    \cup (IF Extracted /\ result.event.kind = "TravelEvent" THEN {result.event} ELSE {})

\* The TravelEvents that were executed.
DoneTravels == {done[i] : i \in {j \in DOMAIN done : done[j].kind = "TravelEvent"}}

\* C14 as stated: performed_time of a TravelEvent is 0 in every state before
\* its execution, the states in which it is enqueued and waiting included, and
\* time - time_started after its execution.
C14_ZeroUntilExecuted ==
    /\ \A e \in WaitingTravels : PerformedTime(e) = 0
    /\ \A e \in DoneTravels : PerformedTime(e) = e.time - e.time_started

\* C14, amended: performed_time of a TravelEvent is 0 before its insertion, and
\* time - time_started from the insertion on, while it is enqueued and waiting
\* as well as after its execution.
C14_PerformedTimeFromInsertion ==
    /\ \A c \in TravelEvents : PerformedTime(c) = 0
    /\ \A e \in WaitingTravels \cup DoneTravels :
          PerformedTime(e) = e.time - e.time_started

\* A voyage that was inserted before its time has been executed, and another
\* one is waiting: both have a performed_time that is not 0.
C14_Witness ==
    /\ \E e \in DoneTravels : e.time - e.time_started > 0
    /\ \E e \in WaitingTravels : e.time - e.time_started > 0

\* C15 as stated: from the insertion of a TravelEvent until its execution the
\* location of its vessel is OnJourney(origin, destination, time_started) of the
\* event, and on its execution the location is the destination.
C15_OnJourneyUntilExecuted ==
    /\ \A e \in WaitingTravels :
          location[e.vessel] = OnJourney(e.origin, e.destination, e.time_started)
    /\ (result.op = "execute" /\ result.event.kind = "TravelEvent") =>
          location[result.event.vessel] = AtPort(result.event.destination)

\* The step inserts or executes an event of the vessel.
StepOfVessel(v) ==
    \/ \E c \in {x \in TravelEvents : x.vessel = v} : PutEvent(c)
    \/ Execute /\ result.event.vessel = v

\* C15, amended: the insertion of a TravelEvent leaves the location of its vessel
\* at OnJourney(origin, destination, time_started) of the event, the location
\* stays there as long as no other event of the same vessel is inserted or
\* executed, and on the execution of the event it is the destination.
C15_OnJourneyUnlessOvertaken ==
    /\ [][\A c \in TravelEvents : PutEvent(c) =>
            /\ location'[c.vessel].kind = "OnJourney"
            /\ \E i \in DOMAIN queue' :
                  /\ queue'[i].event.id = nextId
                  /\ location'[c.vessel] =
                        OnJourney(c.origin, c.destination, queue'[i].event.time_started)]_vars
    /\ [][\A v \in Vessels : location'[v] # location[v] => StepOfVessel(v)]_vars
    /\ [][(Execute /\ result.event.kind = "TravelEvent") =>
            location'[result.event.vessel] = AtPort(result.event.destination)]_vars

\* The only voyage that was inserted has been executed after a wait, and its
\* vessel is at the destination "B".
C15_Witness ==
    /\ Len(hooks) = 1 /\ current_time > 0
    /\ result.op = "execute" /\ result.event.kind = "TravelEvent"
    /\ result.event.time_started = 0 /\ result.event.destination = "B"
    /\ location[result.event.vessel] = AtPort("B")

\* The time of the arrival is outside the window of the trade that applies to
\* it: the pickup window [time_window[1], time_window[2]] or the drop-off window
\* [time_window[3], time_window[4]], an unset bound being no bound.
OutOfWindow(e) ==
    LET lo == e.trade.time_window[IF e.is_pickup THEN 1 ELSE 3]
        hi == e.trade.time_window[IF e.is_pickup THEN 2 ELSE 4]
    IN  \/ lo # None /\ e.time < lo[1]
        \/ hi # None /\ e.time > hi[1]

\* C16: the execution of an ArrivalEvent, in or out of the time window of its
\* trade, raises nothing, informs the vessel of the event, leaves the vessel at
\* the trade's origin port (pickup) or destination port (drop-off) and leaves
\* every vessel's cargo as it was.
C16_ArrivalNonFatal ==
    [][(Execute /\ result.event.kind = "ArrivalEvent") =>
          LET e == result.event
          IN  /\ result'.err = NoneV
              /\ occurrences' = Append(occurrences, <<e.vessel, e.id>>)
              /\ location'[e.vessel] = AtPort(IF e.is_pickup THEN e.trade.origin_port
                                              ELSE e.trade.destination_port)
              /\ cargo' = cargo]_vars

\* A drop-off arrival after the latest drop-off time has been executed, and the
\* vessel is at the destination port of the trade.
C16_Witness ==
    /\ result.op = "execute" /\ result.event.kind = "ArrivalEvent"
    /\ ~result.event.is_pickup /\ OutOfWindow(result.event)
    /\ errors > 0
    /\ location[result.event.vessel] = AtPort(result.event.trade.destination_port)

\* What the transfers executed so far have loaded of the cargo type onto the
\* vessel, less what they have unloaded.
RECURSIVE NetLoaded(_, _, _)
NetLoaded(d, v, ct) ==
    IF d = <<>> THEN 0
    ELSE LET e == d[Len(d)]
         IN  NetLoaded(SubSeq(d, 1, Len(d) - 1), v, ct)
             + (IF e.kind = "CargoTransferEvent" /\ e.vessel = v /\ e.trade.cargo_type = ct
                THEN (IF e.is_pickup THEN e.trade.amount ELSE 0 - e.trade.amount)
                ELSE 0)

\* C17: the execution of a pickup CargoTransferEvent raises the vessel's load of
\* the trade's cargo type by the trade's amount, that of a drop-off lowers it by
\* the amount, and no other load changes; so every load is what the pickups
\* brought less what the drop-offs took, and a pickup followed by its drop-off
\* leaves the load where it was.
C17_TransferMovesAmount ==
    /\ [](\A v \in Vessels, ct \in CargoTypes : cargo[v][ct] = NetLoaded(done, v, ct))
    /\ [][(Execute /\ result.event.kind = "CargoTransferEvent") =>
            LET e == result.event
                a == e.trade.amount
            IN  \A v \in Vessels, ct \in CargoTypes :
                  cargo'[v][ct] =
                      IF v = e.vessel /\ ct = e.trade.cargo_type
                      THEN (IF e.is_pickup THEN cargo[v][ct] + a ELSE cargo[v][ct] - a)
                      ELSE cargo[v][ct]]_vars

\* A pickup and then its drop-off have been executed: the load is 0 again.
C17_Witness ==
    /\ Len(done) = 2
    /\ done[1].kind = "CargoTransferEvent" /\ done[1].is_pickup
    /\ done[2].kind = "CargoTransferEvent" /\ ~done[2].is_pickup
    /\ done[2].vessel = done[1].vessel /\ done[2].trade = done[1].trade
    /\ cargo[done[1].vessel][done[1].trade.cargo_type] = 0

\* The step executes a CargoAnnouncementEvent.
ExecuteAnnouncement == Execute /\ result.event.kind = "CargoAnnouncementEvent"

\* The market's last call is the announcement of the trades of time t.
Informed(m, t) ==
    /\ m # <<>>
    /\ m[Len(m)] = MarketCall("inform_future_trades", t, GetTrades(t))

\* The identities of the pending CargoAnnouncementEvents.
PendingAnnouncements(h) ==
    {h[i].event.id : i \in {j \in DOMAIN h : h[j].event.kind = "CargoAnnouncementEvent"}}

TravelIdsOf(h, v) ==
    {h[i].event.id :
        i \in {j \in DOMAIN h : h[j].event.kind = "TravelEvent" /\ h[j].event.vessel = v}}

\* The identities of the pending TravelEvents that are structurally equal to e.
TravelIdsEqual(h, e) ==
    {h[i].event.id :
        i \in {j \in DOMAIN h : h[j].event.kind = "TravelEvent" /\ EventEq(e, h[j].event)}}

\* C21: after purge(v) none of the TravelEvents of v that were pending is pending
\* any more, and after remove(e) of a pending TravelEvent one such event is not
\* (so that get cannot return it and it is not executed); neither call changes a
\* vessel's location, and the events that stay pending are as they were,
\* time_started included.
C21_PurgedTravelNeverExtracted ==
    /\ [][\A v \in Vessels : Purge(v) =>
            /\ TravelIdsOf(queue, v) \cap Ids(queue') = {}
            /\ location' = location
            /\ \A i \in DOMAIN queue' : \E j \in DOMAIN queue : queue'[i] = queue[j]]_vars
    /\ [][\A e \in {x \in Probes : x.kind = "TravelEvent"} :
            (Remove(<<e>>) /\ TravelIdsEqual(queue, e) # {}) =>
                /\ ~(TravelIdsEqual(queue, e) \subseteq Ids(queue'))
                /\ location' = location
                /\ \A i \in DOMAIN queue' : \E j \in DOMAIN queue : queue'[i] = queue[j]]_vars

\* C22: is_laden of a TravelEvent is false when it is constructed and as long as
\* it is enqueued or extracted and not executed; its execution sets it to what
\* vessel.has_any_load() returns at that instant; and no later step changes
\* the is_laden of an executed event, whatever happens to the vessel's cargo.
C22_LadenSetAtExecution ==
    /\ [](/\ \A c \in {x \in LadenEvents : x.kind = "TravelEvent"} : ~c.is_laden
          /\ \A e \in WaitingTravels : ~e.is_laden)
    /\ [][(Execute /\ result.event.kind = "TravelEvent") =>
            /\ result'.event.is_laden = HasAnyLoad(cargo, result.event.vessel)
            /\ done' = Append(done, result'.event)]_vars
    /\ [][\A i \in DOMAIN done : i \in DOMAIN done' /\ done'[i] = done[i]]_vars

\* A voyage was executed while the vessel was loaded, and the vessel has been
\* unloaded since.
C22_Witness ==
    /\ \E e \in DoneTravels : e.is_laden /\ ~HasAnyLoad(cargo, e.vessel)
    /\ result.op = "execute" /\ result.event.kind = "CargoTransferEvent"

\* C23: the execution of an ArrivalEvent flags a violation exactly if the time
\* of the event is before the earliest or after the latest time of the window
\* that applies (pickup or drop-off), an unset bound never being violated; it
\* flags at most one.
C23_ViolationIffOutOfWindow ==
    [][(Execute /\ result.event.kind = "ArrivalEvent") =>
          /\ errors' \in {errors, errors + 1}
          /\ errors' = errors + 1 <=> OutOfWindow(result.event)]_vars

\* A pickup arrival inside its pickup window and before the earliest drop-off
\* time was executed, and nothing was flagged.
C23_Witness ==
    /\ result.op = "execute" /\ result.event.kind = "ArrivalEvent"
    /\ result.event.is_pickup /\ errors = 0
    /\ result.event.trade.time_window[1] = Some(0)
    /\ result.event.trade.time_window[2] = None
    /\ result.event.trade.time_window[3] # None
    /\ result.event.time < result.event.trade.time_window[3][1]

====
